---- MODULE Spec2Model ----
(***************************************************************************)
(* Model of the zero-copy string-view layer of stringzilla/pybind11.cpp:   *)
(* the slice resolvers, the search/split operations of py_span_t, the      *)
(* collection py_spans_t and the shared_ptr ownership of py_str_t /        *)
(* py_file_t / py_subspan_t / py_spans_t.                                  *)
(*                                                                         *)
(* Two specifications:                                                     *)
(*   SpecOps  - one owner holding `text`; every call of the read-only      *)
(*              operations with inputs drawn from bounded sets.            *)
(*   SpecLife - the object graph: handles, use counts, destruction.       *)
(***************************************************************************)
EXTENDS Integers, Sequences, FiniteSets, TLC

VARIABLES
    text,        \* the owner's bytes: py_str_t::copy_ or the range mapped by py_file_t
    call,        \* the method the host has called on the owner's view, with its arguments
    ret,         \* what that call returned or threw; the value sits in a field named per
                 \* operation (found, index, count, elem, span, parts, part)
    objs,        \* every object made so far, with its shared_ptr use count
    unmapCount,  \* times ~py_file_t has called munmap
    freeCount,   \* times ~py_str_t has freed the copied string
    crashed      \* an out-of-bounds access has faulted the process

vars == <<text, call, ret, objs, unmapCount, freeCount, crashed>>
opsVars == <<call, ret>>
lifeVars == <<objs, unmapCount, freeCount, crashed>>

----------------------------------------------------------------------------
(* Bounds of the model *)

\* longest owner text explored
MaxLen == 4
\* width in bits of size_t / ssize_t in the model (64 in the build)
WordBits == 16
\* most objects (owner, subspans, collections) alive or dead in one run of SpecLife
MaxObjs == 4

\* the byte values texts are drawn from
Byte == {1, 2}

RECURSIVE Pow2(_)
Pow2(n) == IF n = 0 THEN 1 ELSE 2 * Pow2(n - 1)

SizeMod == Pow2(WordBits)
ssize_max_k == Pow2(WordBits - 1) - 1
size_max_k == SizeMod - 1

\* static_cast<size_t>(x)
ToSize(x) == x % SizeMod
\* static_cast<ssize_t>(x)
ToSsize(x) == LET u == x % SizeMod IN IF u > ssize_max_k THEN u - SizeMod ELSE u

Min(a, b) == IF a < b THEN a ELSE b
Max(a, b) == IF a > b THEN a ELSE b
BoolInt(b) == IF b THEN 1 ELSE 0

----------------------------------------------------------------------------
(* Memory: the owner's bytes live at addresses OwnerPtr .. OwnerPtr+len-1 *)

NullPtr == 0
OwnerPtr == NullPtr + 8

\* span_t: a (ptr, len) pair; span_t{} is value-initialised
span_t(p, l) == [ptr |-> p, len |-> l]
ZeroSpan == span_t(NullPtr, 0)

\* the span of the owner (py_str_t / py_file_t constructor)
OwnerSpan == span_t(OwnerPtr, Len(text))

\* every byte of the span is a byte of the owner
Readable(s) == s.len = 0 \/ (OwnerPtr <= s.ptr /\ s.ptr + s.len <= OwnerPtr + Len(text))

\* the bytes a readable span denotes
Content(s) == [i \in 1..s.len |-> text[s.ptr - OwnerPtr + i]]

----------------------------------------------------------------------------
(* Search provider (stringzilla.h): first occurrence or the haystack length *)

strzl_naive_find_char(h, c) ==
    IF \E i \in 1..Len(h) : h[i] = c
    THEN (CHOOSE i \in 1..Len(h) : h[i] = c /\ \A j \in 1..(i - 1) : h[j] # c) - 1
    ELSE Len(h)

MatchAt(h, n, i) == i + Len(n) - 1 <= Len(h) /\ \A j \in 1..Len(n) : h[i + j - 1] = n[j]

strzl_naive_find_substr(h, n) ==
    IF \E i \in 1..Len(h) : MatchAt(h, n, i)
    THEN (CHOOSE i \in 1..Len(h) : MatchAt(h, n, i) /\ \A j \in 1..(i - 1) : ~MatchAt(h, n, j)) - 1
    ELSE Len(h)

strzl_naive_count_char(h, c) == Cardinality({i \in 1..Len(h) : h[i] = c})

RECURSIVE strzl_naive_count_substr(_, _, _)
strzl_naive_count_substr(h, n, overlap) ==
    LET off == strzl_naive_find_substr(h, n)
    IN IF off = Len(h) THEN 0
       ELSE 1 + strzl_naive_count_substr(
                    SubSeq(h, off + (IF overlap THEN 1 ELSE Len(n)) + 1, Len(h)), n, overlap)

\* the wrappers of pybind11.cpp over readable spans
count_substr_char(h_span, n) == strzl_naive_count_char(Content(h_span), n)
count_substr(h_span, n, overlap) == strzl_naive_count_substr(Content(h_span), n, overlap)
find_substr_char(h_span, n) == strzl_naive_find_char(Content(h_span), n)
find_substr(h_span, n) == strzl_naive_find_substr(Content(h_span), n)

----------------------------------------------------------------------------
(* Slice index resolver *)

\* unsigned_slice with the check of `end` forgotten
unsigned_slice_start_only(length, start, end) ==
    IF start < 0
    THEN [err |-> "invalid_argument", offset |-> 0, length |-> 0]
    ELSE LET s == Min(start, ToSsize(length))
             e == Min(end, ToSsize(length))
         IN [err |-> "none", offset |-> ToSize(s), length |-> ToSize(e - s)]

unsigned_slice(length, start, end) ==
    IF start < 0 \/ end < 0
    THEN [err |-> "invalid_argument", offset |-> 0, length |-> 0]
    ELSE LET s == Min(start, ToSsize(length))
             e == Min(end, ToSsize(length))
         IN [err |-> "none", offset |-> ToSize(s), length |-> ToSize(e - s)]

unsigned_offset(length, idx) ==
    IF idx >= 0
    THEN IF ToSize(idx) > length
         THEN [err |-> "out_of_range", offset |-> 0]
         ELSE [err |-> "none", offset |-> ToSize(idx)]
    ELSE IF ToSize(-idx) > length
         THEN [err |-> "out_of_range", offset |-> 0]
         ELSE [err |-> "none", offset |-> ToSize(length + idx)]

subspan(span, start, end) ==
    LET index_span == unsigned_slice(span.len, start, end)
    IN [err |-> index_span.err,
        span |-> span_t(span.ptr + index_span.offset, index_span.length)]

after_n(view, offset) ==
    IF offset < view.len THEN span_t(view.ptr + offset, view.len - offset) ELSE ZeroSpan

----------------------------------------------------------------------------
(* Outcomes of a call: a set, because an out-of-bounds access is undefined  *)
(* behaviour (it may fault, or go on with whatever the memory holds).       *)

Ok(v) == [status |-> "ok", val |-> v]
Threw(e, v) == [status |-> e, val |-> v]
Crash(v) == [status |-> "crash", val |-> v]
\* undefined behaviour: a fault, or any of the values in S
Undefined(S, v) == {Crash(v)} \cup {Ok(x) : x \in S}

\* what a read outside the owner's bytes can deliver
GarbageByte == {0} \cup Byte
GarbageSpan == {ZeroSpan, span_t(OwnerPtr + MaxLen + 4, 1)}

----------------------------------------------------------------------------
(* py_span_t: the read-only operations of a view *)

py_span_t_contains(view, needle, start, end) ==
    IF Len(needle) = 0 THEN {Ok(TRUE)}
    ELSE LET part == subspan(view, start, end)
         IN IF part.err # "none" THEN {Threw(part.err, FALSE)}
            ELSE IF ~Readable(part.span) THEN Undefined(BOOLEAN, FALSE)
            ELSE LET offset == IF Len(needle) = 1
                               THEN find_substr_char(part.span, needle[1])
                               ELSE find_substr(part.span, needle)
                 IN {Ok(offset # part.span.len)}

py_span_t_find(view, needle, start, end) ==
    IF Len(needle) = 0 THEN {Ok(0)}
    ELSE LET part == subspan(view, start, end)
         IN IF part.err # "none" THEN {Threw(part.err, 0)}
            ELSE IF ~Readable(part.span) THEN Undefined((-1)..MaxLen, 0)
            ELSE LET offset == IF Len(needle) = 1
                               THEN find_substr_char(part.span, needle[1])
                               ELSE find_substr(part.span, needle)
                 IN {Ok(IF offset # part.span.len THEN ToSsize(offset) ELSE -1)}

py_span_t_count(view, needle, start, end, allowoverlap) ==
    IF Len(needle) = 0 THEN {Ok(0)}
    ELSE LET part == subspan(view, start, end)
         IN IF part.err # "none" THEN {Threw(part.err, 0)}
            ELSE IF ~Readable(part.span) THEN Undefined(0..MaxLen, 0)
            ELSE LET result == IF Len(needle) = 1
                               THEN count_substr_char(part.span, needle[1])
                               ELSE count_substr(part.span, needle, allowoverlap)
                 IN {Ok(ToSsize(result))}

\* char at(ssize_t offset): begin()[unsigned_offset(len, offset)]
py_span_t_at(view, offset) ==
    LET o == unsigned_offset(view.len, offset)
    IN IF o.err # "none" THEN {Threw(o.err, [pos |-> 0, byte |-> 0])}
       ELSE IF Readable(span_t(view.ptr + o.offset, 1)) /\ o.offset < view.len
            THEN {Ok([pos |-> o.offset, byte |-> text[view.ptr - OwnerPtr + o.offset + 1]])}
            ELSE Undefined({[pos |-> o.offset, byte |-> b] : b \in GarbageByte},
                           [pos |-> o.offset, byte |-> 0])

py_span_t_sub(view, start, end) ==
    LET index_span == unsigned_slice(ToSize(ToSsize(view.len)), start, end)
    IN IF index_span.err # "none" THEN Threw(index_span.err, ZeroSpan)
       ELSE Ok(span_t(view.ptr + index_span.offset, index_span.length))

\* a split of a view that reaches outside the owner's bytes scans foreign memory
ScanOutside == Undefined({<<g>> : g \in GarbageSpan}, <<>>)

\* splitlines_loop with the line break never kept
RECURSIVE splitlines_loop_drop_break(_, _, _, _, _, _)
splitlines_loop_drop_break(view, keeplinebreaks, separator, parts, i, last_start) ==
    IF i + 1 < Len(parts)
    THEN LET remaining == after_n(view, last_start)
             offset_in_remaining == find_substr_char(remaining, separator)
         IN splitlines_loop_drop_break(view, keeplinebreaks, separator,
                [parts EXCEPT ![i + 1] = span_t(view.ptr + last_start, offset_in_remaining)],
                i + 1, last_start + offset_in_remaining + 1)
    ELSE [parts |-> parts, last_start |-> last_start]

RECURSIVE splitlines_loop(_, _, _, _, _, _)
splitlines_loop(view, keeplinebreaks, separator, parts, i, last_start) ==
    IF i + 1 < Len(parts)
    THEN LET remaining == after_n(view, last_start)
             offset_in_remaining == find_substr_char(remaining, separator)
         IN splitlines_loop(view, keeplinebreaks, separator,
                [parts EXCEPT ![i + 1] = span_t(view.ptr + last_start,
                                                offset_in_remaining + BoolInt(keeplinebreaks))],
                i + 1, last_start + offset_in_remaining + 1)
    ELSE [parts |-> parts, last_start |-> last_start]

py_span_t_splitlines(view, keeplinebreaks, separator, maxsplit) ==
    IF ~Readable(view) THEN ScanOutside
    ELSE
    LET count_separators == count_substr_char(view, separator)
        n == Min(count_separators + 1, maxsplit)
        done == splitlines_loop(view, keeplinebreaks, separator,
                                [j \in 1..n |-> ZeroSpan], 0, 0)
    IN IF count_separators < n
       THEN {Ok([done.parts EXCEPT ![count_separators + 1] = after_n(view, done.last_start)])}
       ELSE \* parts[count_separators] is written past the end of the vector
            Undefined({done.parts}, <<>>)

\* split_loop stepping over one byte instead of the whole separator
RECURSIVE split_loop_skip_one(_, _, _, _, _, _, _)
split_loop_skip_one(view, separator, maxsplit, keepseparator, parts, last_start, will_continue) ==
    IF last_start < view.len /\ Len(parts) + 1 < maxsplit
    THEN LET remaining == after_n(view, last_start)
             offset_in_remaining == find_substr(remaining, separator)
             wc == offset_in_remaining # remaining.len
             part_len == offset_in_remaining
                         + Len(separator) * BoolInt(keepseparator) * BoolInt(wc)
         IN split_loop_skip_one(view, separator, maxsplit, keepseparator,
                       Append(parts, span_t(remaining.ptr, part_len)),
                       last_start + offset_in_remaining + 1, wc)
    ELSE IF will_continue THEN Append(parts, after_n(view, last_start)) ELSE parts

RECURSIVE split_loop(_, _, _, _, _, _, _)
split_loop(view, separator, maxsplit, keepseparator, parts, last_start, will_continue) ==
    IF last_start < view.len /\ Len(parts) + 1 < maxsplit
    THEN LET remaining == after_n(view, last_start)
             offset_in_remaining == find_substr(remaining, separator)
             wc == offset_in_remaining # remaining.len
             part_len == offset_in_remaining
                         + Len(separator) * BoolInt(keepseparator) * BoolInt(wc)
         IN split_loop(view, separator, maxsplit, keepseparator,
                       Append(parts, span_t(remaining.ptr, part_len)),
                       last_start + offset_in_remaining + Len(separator), wc)
    ELSE IF will_continue THEN Append(parts, after_n(view, last_start)) ELSE parts

py_span_t_split(view, separator, maxsplit, keepseparator) ==
    IF Len(separator) = 1 /\ maxsplit = ssize_max_k
    THEN py_span_t_splitlines(view, keepseparator, separator[1], maxsplit)
    ELSE IF ~Readable(view) THEN ScanOutside
    ELSE {Ok(split_loop(view, separator, maxsplit, keepseparator, <<>>, 0, TRUE))}

----------------------------------------------------------------------------
(* py_spans_t: a collection of parts *)

py_spans_t_at(parts_, i) ==
    LET o == unsigned_offset(ToSize(ToSsize(Len(parts_))), i)
    IN IF o.err # "none" THEN {Threw(o.err, [pos |-> 0, span |-> ZeroSpan])}
       ELSE IF o.offset < Len(parts_)
            THEN {Ok([pos |-> o.offset, span |-> parts_[o.offset + 1]])}
            ELSE Undefined({[pos |-> o.offset, span |-> g] : g \in GarbageSpan},
                           [pos |-> o.offset, span |-> ZeroSpan])

py_spans_t_sub(parts_, start, end) ==
    LET index_span == unsigned_slice(Len(parts_), start, end)
    IN IF index_span.err # "none" THEN {Threw(index_span.err, <<>>)}
       ELSE IF index_span.offset + index_span.length <= Len(parts_)
            THEN {Ok(SubSeq(parts_, index_span.offset + 1,
                            index_span.offset + index_span.length))}
            ELSE \* the iterator range runs past parts_.end()
                 {Crash(<<>>)}

----------------------------------------------------------------------------
(* SpecOps: the host calls one operation at a time on the owner's view *)

RECURSIVE SeqsUpTo(_, _)
SeqsUpTo(S, n) ==
    IF n = 0 THEN {<<>>}
    ELSE LET shorter == SeqsUpTo(S, n - 1)
         IN shorter \cup {Append(q, b) : q \in {r \in shorter : Len(r) = n - 1}, b \in S}

Texts == SeqsUpTo(Byte, MaxLen)
Needles == SeqsUpTo(Byte, 2)
Separators == Needles \ {<<>>}
SliceBounds == (-1)..(MaxLen + 1) \cup {ssize_max_k}
Indexes == (-(MaxLen + 2))..(MaxLen + 2)
MaxSplits == 0..MaxLen \cup {ssize_max_k, size_max_k}

Idle == [op |-> "idle"]
NoRet == [status |-> "none"]

InitLife ==
    /\ objs = <<>>
    /\ unmapCount = 0
    /\ freeCount = 0
    /\ crashed = FALSE

InitOps ==
    /\ text \in Texts
    /\ call = Idle
    /\ ret = NoRet
    /\ InitLife

Contains ==
    /\ call = Idle
    /\ \E needle \in Needles, start \in SliceBounds, end \in SliceBounds :
          /\ call' = [op |-> "contains", needle |-> needle, start |-> start, end |-> end]
          /\ ret' \in {[status |-> r.status, found |-> r.val] :
                        r \in py_span_t_contains(OwnerSpan, needle, start, end)}
    /\ UNCHANGED <<text, lifeVars>>

Find ==
    /\ call = Idle
    /\ \E needle \in Needles, start \in SliceBounds, end \in SliceBounds :
          /\ call' = [op |-> "find", needle |-> needle, start |-> start, end |-> end]
          /\ ret' \in {[status |-> r.status, index |-> r.val] :
                        r \in py_span_t_find(OwnerSpan, needle, start, end)}
    /\ UNCHANGED <<text, lifeVars>>

Count ==
    /\ call = Idle
    /\ \E needle \in Needles, start \in SliceBounds, end \in SliceBounds,
          allowoverlap \in BOOLEAN :
          /\ call' = [op |-> "count", needle |-> needle, start |-> start, end |-> end,
                      allowoverlap |-> allowoverlap]
          /\ ret' \in {[status |-> r.status, count |-> r.val] :
                        r \in py_span_t_count(OwnerSpan, needle, start, end, allowoverlap)}
    /\ UNCHANGED <<text, lifeVars>>

ByteAt ==
    /\ call = Idle
    /\ \E index \in Indexes :
          /\ call' = [op |-> "at", index |-> index]
          /\ ret' \in {[status |-> r.status, elem |-> r.val] : r \in py_span_t_at(OwnerSpan, index)}
    /\ UNCHANGED <<text, lifeVars>>

Sub ==
    /\ call = Idle
    /\ \E start \in SliceBounds, end \in SliceBounds :
          /\ call' = [op |-> "sub", start |-> start, end |-> end]
          /\ ret' = LET r == py_span_t_sub(OwnerSpan, start, end)
                    IN [status |-> r.status, span |-> r.val]
    /\ UNCHANGED <<text, lifeVars>>

Splitlines ==
    /\ call = Idle
    /\ \E keeplinebreaks \in BOOLEAN, separator \in Byte, maxsplit \in MaxSplits :
          /\ call' = [op |-> "splitlines", keep |-> keeplinebreaks,
                      separator |-> <<separator>>, maxsplit |-> maxsplit]
          /\ ret' \in {[status |-> r.status, parts |-> r.val] :
                        r \in py_span_t_splitlines(OwnerSpan, keeplinebreaks, separator, maxsplit)}
    /\ UNCHANGED <<text, lifeVars>>

Split ==
    /\ call = Idle
    /\ \E separator \in Separators, maxsplit \in MaxSplits, keepseparator \in BOOLEAN :
          /\ call' = [op |-> "split", keep |-> keepseparator,
                      separator |-> separator, maxsplit |-> maxsplit]
          /\ ret' \in {[status |-> r.status, parts |-> r.val] :
                        r \in py_span_t_split(OwnerSpan, separator, maxsplit, keepseparator)}
    /\ UNCHANGED <<text, lifeVars>>

\* the collection a split has just returned
HasCollection == call.op \in {"split", "splitlines"} /\ ret.status = "ok"

SpansAt ==
    /\ HasCollection
    /\ \E i \in Indexes :
          /\ call' = [op |-> "spans_at", parts |-> ret.parts, index |-> i]
          /\ ret' \in {[status |-> r.status, part |-> r.val] : r \in py_spans_t_at(ret.parts, i)}
    /\ UNCHANGED <<text, lifeVars>>

SpansSub ==
    /\ HasCollection
    /\ \E start \in SliceBounds, end \in SliceBounds :
          /\ call' = [op |-> "spans_sub", parts |-> ret.parts, start |-> start, end |-> end]
          /\ ret' \in {[status |-> r.status, parts |-> r.val] :
                        r \in py_spans_t_sub(ret.parts, start, end)}
    /\ UNCHANGED <<text, lifeVars>>

\* the host consumes the result
Return ==
    /\ call # Idle
    /\ call' = Idle
    /\ ret' = NoRet
    /\ UNCHANGED <<text, lifeVars>>

NextOps ==
    \/ Contains
    \/ Find
    \/ Count
    \/ ByteAt
    \/ Sub
    \/ Splitlines
    \/ Split
    \/ SpansAt
    \/ SpansSub
    \/ Return

SpecOps == InitOps /\ [][NextOps]_vars

----------------------------------------------------------------------------
(* SpecLife: the objects the host holds and the shared_ptr graph among them *)
(*                                                                          *)
(* objs[id]: kind      "str" | "file" | "subspan" | "spans"                 *)
(*           span      ptr/len of a view (ZeroSpan for a collection)        *)
(*           parts     parts_ of a collection (<<>> for a view)             *)
(*           parent    the object parent_ / whole_ points to, 0 for none    *)
(*           of        the view the object was derived from (history only)  *)
(*           handle    the host still holds its reference                   *)
(*           use_count strong count of the shared_ptr control block         *)
(*           alive     the destructor has not run                           *)

OwnerKinds == {"str", "file"}
ViewKinds == {"str", "file", "subspan"}

LifeTexts == {<<1, 2>>}
LifeSlices == {<<1, ssize_max_k>>, <<2, 1>>}
LifeSeparators == {<<2>>}
LifeMaxSplits == {1, size_max_k}
LifeIndexes == {-1, 1}

Ids == 1..Len(objs)
Held(o) == objs[o].handle /\ objs[o].alive

InitOwner(kind) ==
    [kind |-> kind, span |-> OwnerSpan, parts |-> <<>>, parent |-> 0, of |-> 0,
     handle |-> TRUE, use_count |-> 1, alive |-> TRUE]

\* std::make_shared<py_subspan_t>(parent, str)
py_subspan_t(parent, of, str) ==
    [kind |-> "subspan", span |-> str, parts |-> <<>>, parent |-> parent, of |-> of,
     handle |-> TRUE, use_count |-> 1, alive |-> TRUE]

\* std::make_shared<py_spans_t>(whole, parts)
py_spans_t(whole, of, parts) ==
    [kind |-> "spans", span |-> ZeroSpan, parts |-> parts, parent |-> whole, of |-> of,
     handle |-> TRUE, use_count |-> 1, alive |-> TRUE]

\* no owning reference taken: the new object keeps a bare pointer
no_shared_owner(os, v) == 0

\* the reference re-pointed at what the view itself refers to (a flat chain)
flattened_owner(os, v) == IF os[v].kind = "subspan" THEN os[v].parent ELSE v

\* shared_from_this() of the view a method is called on: the view itself
shared_from_this(os, v) == v

\* copying a shared_ptr adds one to the use count of what it points to
add_ref(os, p) == IF p = 0 THEN os ELSE [os EXCEPT ![p].use_count = @ + 1]

\* the new object is appended and its parent_ / whole_ copy is counted
construct(os, obj) == Append(add_ref(os, obj.parent), obj)

\* a destructor that lets go of nothing
holds_nothing(os, o) == 0

\* the shared_ptr member a destructor releases
held_by(os, o) == os[o].parent

\* dropping one reference to o; the last one runs the destructor, which
\* drops the reference the object holds itself
RECURSIVE drop_ref(_, _)
drop_ref(os, o) ==
    IF o = 0 THEN os
    ELSE LET n == os[o].use_count - 1
             os1 == [os EXCEPT ![o].use_count = n]
         IN IF n # 0 THEN os1
            ELSE drop_ref([os1 EXCEPT ![o].alive = FALSE], held_by(os1, o))

\* destructors of the given kind run between two object tables
Destroyed(os, os2, kind) ==
    Cardinality({o \in 1..Len(os) : os[o].kind = kind /\ os[o].alive /\ ~os2[o].alive})

InitSpecLife ==
    /\ text \in LifeTexts
    /\ call = Idle
    /\ ret = NoRet
    /\ \E kind \in OwnerKinds : objs = <<InitOwner(kind)>>
    /\ unmapCount = 0
    /\ freeCount = 0
    /\ crashed = FALSE

CanCreate == ~crashed /\ Len(objs) < MaxObjs

LifeSub ==
    /\ CanCreate
    /\ \E v \in Ids, se \in LifeSlices :
          /\ Held(v) /\ objs[v].kind \in ViewKinds
          /\ LET r == py_span_t_sub(objs[v].span, se[1], se[2])
             IN /\ r.status = "ok"
                /\ objs' = construct(objs, py_subspan_t(shared_from_this(objs, v), v, r.val))
    /\ UNCHANGED <<text, opsVars, unmapCount, freeCount, crashed>>

\* a split or splitlines call on view v whose outcome is r
Collect(v, r) ==
    IF r.status = "crash"
    THEN crashed' = TRUE /\ objs' = objs
    ELSE /\ objs' = construct(objs, py_spans_t(shared_from_this(objs, v), v, r.val))
         /\ crashed' = crashed

LifeSplit ==
    /\ CanCreate
    /\ \E v \in Ids, separator \in LifeSeparators, maxsplit \in LifeMaxSplits,
          keepseparator \in BOOLEAN :
          /\ Held(v) /\ objs[v].kind \in ViewKinds
          /\ \E r \in py_span_t_split(objs[v].span, separator, maxsplit, keepseparator) :
                Collect(v, r)
    /\ UNCHANGED <<text, opsVars, unmapCount, freeCount>>

LifeSplitlines ==
    /\ CanCreate
    /\ \E v \in Ids, separator \in LifeSeparators, maxsplit \in LifeMaxSplits,
          keeplinebreaks \in BOOLEAN :
          /\ Held(v) /\ objs[v].kind \in ViewKinds
          /\ \E r \in py_span_t_splitlines(objs[v].span, keeplinebreaks, separator[1], maxsplit) :
                Collect(v, r)
    /\ UNCHANGED <<text, opsVars, unmapCount, freeCount>>

LifeAt ==
    /\ CanCreate
    /\ \E c \in Ids, i \in LifeIndexes :
          /\ Held(c) /\ objs[c].kind = "spans"
          /\ \E r \in py_spans_t_at(objs[c].parts, i) :
                /\ r.status \in {"ok", "crash"}
                /\ IF r.status = "crash"
                   THEN crashed' = TRUE /\ objs' = objs
                   ELSE /\ objs' = construct(objs,
                                      py_subspan_t(objs[c].parent, objs[c].of, r.val.span))
                        /\ crashed' = crashed
    /\ UNCHANGED <<text, opsVars, unmapCount, freeCount>>

LifeSpansSub ==
    /\ CanCreate
    /\ \E c \in Ids, se \in LifeSlices :
          /\ Held(c) /\ objs[c].kind = "spans"
          /\ \E r \in py_spans_t_sub(objs[c].parts, se[1], se[2]) :
                /\ r.status \in {"ok", "crash"}
                /\ IF r.status = "crash"
                   THEN crashed' = TRUE /\ objs' = objs
                   ELSE /\ objs' = construct(objs,
                                      py_spans_t(objs[c].parent, objs[c].of, r.val))
                        /\ crashed' = crashed
    /\ UNCHANGED <<text, opsVars, unmapCount, freeCount>>

\* the host drops its reference to object o
Release ==
    /\ ~crashed
    /\ \E o \in Ids :
          /\ Held(o)
          /\ LET os2 == drop_ref([objs EXCEPT ![o].handle = FALSE], o)
             IN /\ objs' = os2
                /\ unmapCount' = unmapCount + Destroyed(objs, os2, "file")
                /\ freeCount' = freeCount + Destroyed(objs, os2, "str")
    /\ UNCHANGED <<text, opsVars, crashed>>

NextLife ==
    \/ LifeSub
    \/ LifeSplit
    \/ LifeSplitlines
    \/ LifeAt
    \/ LifeSpansSub
    \/ Release

SpecLife == InitSpecLife /\ [][NextLife]_vars

----------------------------------------------------------------------------
(* Reference notions the properties are stated with *)

Contents(parts) == [j \in 1..Len(parts) |-> Content(parts[j])]
AllWithin(parts, view) ==
    \A j \in 1..Len(parts) :
        parts[j].len = 0 \/ (view.ptr <= parts[j].ptr
                             /\ parts[j].ptr + parts[j].len <= view.ptr + view.len)

RECURSIVE Join(_, _)
Join(segs, sep) ==
    IF Len(segs) = 0 THEN <<>>
    ELSE IF Len(segs) = 1 THEN segs[1]
    ELSE segs[1] \o sep \o Join(Tail(segs), sep)

Occurs(h, n) == \E i \in 1..Len(h) : MatchAt(h, n, i)
FirstMatch(h, n) == CHOOSE i \in 1..Len(h) : MatchAt(h, n, i) /\ \A j \in 1..(i - 1) : ~MatchAt(h, n, j)

\* the segments between the successive non-overlapping occurrences of sep
RECURSIVE Segments(_, _)
Segments(h, sep) ==
    IF ~Occurs(h, sep) THEN <<h>>
    ELSE LET i == FirstMatch(h, sep)
         IN <<SubSeq(h, 1, i - 1)>> \o Segments(SubSeq(h, i + Len(sep), Len(h)), sep)

\* the first m-1 lines of h and then the whole tail, m <= occurrences + 1
RECURSIVE Lines(_, _, _, _)
Lines(h, c, keep, m) ==
    IF m <= 1 THEN <<h>>
    ELSE LET i == FirstMatch(h, <<c>>)
         IN <<SubSeq(h, 1, i - 1 + BoolInt(keep))>>
            \o Lines(SubSeq(h, i + 1, Len(h)), c, keep, m - 1)

NoCap == {ssize_max_k, size_max_k}
SliceOf(start, end) == SubSeq(text, Min(start, Len(text)) + 1, Min(end, Len(text)))

----------------------------------------------------------------------------
(* Properties checked under SpecOps *)

\* C3: for start, end >= 0 the resolved range is offset = min(start, length),
\* span_length = max(0, min(end, length) - min(start, length)), it stays inside
\* length, and resolving (0, span_length) against span_length gives span_length.
C3_ResolveRange ==
    (call.op = "sub" /\ call.start >= 0 /\ call.end >= 0) =>
        LET L == Len(text)
            off == ret.span.ptr - OwnerPtr
            n == ret.span.len
        IN /\ ret.status = "ok"
           /\ off = Min(call.start, L)
           /\ n = Max(0, Min(call.end, L) - Min(call.start, L))
           /\ off + n <= L
           /\ unsigned_slice(n, 0, n).length = n

\* C4: element access by index i on n elements yields the element at i for
\* 0 <= i < n, at n + i for -n <= i < 0, and OutOfRange for every other index
\* (i = n included); a successful access reads inside [0, n).
C4_IndexAccess ==
    /\ call.op = "at" =>
         LET n == Len(text)
             i == call.index
         IN IF 0 <= i /\ i < n THEN [status |-> "ok", elem |-> [pos |-> i, byte |-> text[i + 1]]] = ret
            ELSE IF -n <= i /\ i < 0
                 THEN [status |-> "ok", elem |-> [pos |-> n + i, byte |-> text[n + i + 1]]] = ret
            ELSE ret.status = "out_of_range"
    /\ call.op = "spans_at" =>
         LET n == Len(call.parts)
             i == call.index
         IN IF 0 <= i /\ i < n THEN [status |-> "ok", part |-> [pos |-> i, span |-> call.parts[i + 1]]] = ret
            ELSE IF -n <= i /\ i < 0
                 THEN [status |-> "ok", part |-> [pos |-> n + i, span |-> call.parts[n + i + 1]]] = ret
            ELSE ret.status = "out_of_range"

\* C5: splitlines with max_parts >= 1 on a view with k separators returns
\* min(k+1, max_parts) parts inside the view: the successive lines and then the
\* whole remaining tail, later separators left embedded in it.
C5_SplitlinesParts ==
    (call.op = "splitlines" /\ call.maxsplit >= 1) =>
        LET c == call.separator[1]
            k == Cardinality({i \in 1..Len(text) : text[i] = c})
            m == Min(k + 1, call.maxsplit)
        IN /\ ret.status = "ok"
           /\ Len(ret.parts) = m
           /\ AllWithin(ret.parts, OwnerSpan)
           /\ Contents(ret.parts) = Lines(text, c, call.keep, m)

\* C6: split with no part cap returns the k+1 segments between the successive
\* non-overlapping separator occurrences; joined with the separator (or, with
\* keep_separator, simply concatenated) the parts give back the view's bytes.
C6_SplitReconstructs ==
    (call.op = "split" /\ call.maxsplit \in NoCap) =>
        /\ ret.status = "ok"
        /\ AllWithin(ret.parts, OwnerSpan)
        /\ Len(ret.parts) = strzl_naive_count_substr(text, call.separator, FALSE) + 1
        /\ IF call.keep
           THEN Join(Contents(ret.parts), <<>>) = text
           ELSE /\ Contents(ret.parts) = Segments(text, call.separator)
                /\ Join(Contents(ret.parts), call.separator) = text

C6_Witness ==
    /\ call.op = "split"
    /\ call.maxsplit = size_max_k
    /\ ~call.keep
    /\ Len(call.separator) = 2
    /\ ret.status = "ok"
    /\ Len(ret.parts) = 2
    /\ ret.parts[2].len = 0

\* C7 as stated: every call taking slice bounds fails with InvalidArgument when
\* start < 0 or end < 0, whatever the needle.
C7_NegativeBoundsAlwaysRejected ==
    (call.op \in {"contains", "find", "count", "sub", "spans_sub"}
        /\ (call.start < 0 \/ call.end < 0)) => ret.status = "invalid_argument"

\* C7 amended: sub on a view or a collection, and contains/find/count with a
\* non-empty needle, fail with InvalidArgument on a negative bound; with the empty
\* needle contains/find/count answer true/0/0 without looking at the bounds.
C7_NegativeBoundsRejected ==
    /\ (call.op \in {"sub", "spans_sub"} /\ (call.start < 0 \/ call.end < 0))
           => ret.status = "invalid_argument"
    /\ (call.op \in {"contains", "find", "count"} /\ (call.start < 0 \/ call.end < 0)) =>
           IF call.needle # <<>> THEN ret.status = "invalid_argument"
           ELSE ret = CASE call.op = "contains" -> [status |-> "ok", found |-> TRUE]
                        [] call.op = "find" -> [status |-> "ok", index |-> 0]
                        [] call.op = "count" -> [status |-> "ok", count |-> 0]

C7_Witness ==
    /\ call.op = "count"
    /\ call.needle # <<>>
    /\ call.start >= 0
    /\ call.end < 0
    /\ ret.status = "invalid_argument"

\* C9: with a single-byte separator and no part cap, split returns the same
\* sequence of part contents as splitlines with that byte, the same keep flag
\* and no cap, on the delegating path and on the general loop alike.
C9_SplitEqualsSplitlines ==
    (call.op = "split" /\ Len(call.separator) = 1 /\ call.maxsplit \in NoCap) =>
        /\ ret.status = "ok"
        /\ \A lines \in py_span_t_splitlines(OwnerSpan, call.keep, call.separator[1], size_max_k) :
              /\ lines.status = "ok"
              /\ Contents(ret.parts) = Contents(lines.val)

C9_Witness ==
    /\ call.op = "split"
    /\ Len(call.separator) = 1
    /\ call.maxsplit = size_max_k
    /\ call.keep
    /\ ret.status = "ok"
    /\ Len(ret.parts) = 3
    /\ ret.parts[3].len = 0

\* C10: for a non-empty needle and start, end >= 0, find returns -1 exactly when
\* contains is false, and otherwise the index, counted from the beginning of the
\* view, where the first occurrence inside the slice [start, end) begins.
C10_FindIndex ==
    (call.op = "find" /\ call.needle # <<>> /\ call.start >= 0 /\ call.end >= 0) =>
        LET slice == SliceOf(call.start, call.end)
        IN /\ ret.status = "ok"
           /\ (ret.index = -1) <=>
                  (Ok(FALSE) \in py_span_t_contains(OwnerSpan, call.needle, call.start, call.end))
           /\ ret.index # -1 =>
                  /\ Occurs(slice, call.needle)
                  /\ ret.index = Min(call.start, Len(text)) + FirstMatch(slice, call.needle) - 1
                  /\ MatchAt(text, call.needle, ret.index + 1)

----------------------------------------------------------------------------
(* Properties checked under SpecLife *)

Owner == objs[1]
Derived == {o \in Ids : objs[o].kind \notin OwnerKinds}
OwnerReleased == ~Owner.alive \/ unmapCount > 0 \/ freeCount > 0

\* the span starts at a byte of the owner (or just past its last one)
PointsInto(sp) == sp.ptr # NullPtr /\ OwnerPtr <= sp.ptr /\ sp.ptr <= OwnerPtr + Len(text)
RangeInOwner(o) ==
    IF objs[o].kind = "spans"
    THEN \E j \in 1..Len(objs[o].parts) : PointsInto(objs[o].parts[j])
    ELSE PointsInto(objs[o].span)

\* the object at the end of the parent_ / whole_ references starting at o
RECURSIVE RootOf(_)
RootOf(o) == IF objs[o].parent = 0 THEN o ELSE RootOf(objs[o].parent)
RECURSIVE ChainLength(_)
ChainLength(o) == IF objs[o].parent = 0 THEN 0 ELSE 1 + ChainLength(objs[o].parent)

\* C1: the owner's bytes are not released while a view, subspan or collection
\* whose range points into them is alive.
C1_OwnerOutlivesViews ==
    \A o \in Derived : (objs[o].alive /\ RangeInOwner(o)) => ~OwnerReleased

C1_Witness ==
    /\ ~Owner.handle
    /\ ~OwnerReleased
    /\ \E o \in Derived : /\ objs[o].kind = "subspan"
                          /\ objs[o].handle
                          /\ RangeInOwner(o)
                          /\ objs[o].parent # 1
                          /\ ~objs[objs[o].parent].handle

\* C2: a memory-mapped owner is unmapped once every handle to it and to what was
\* derived from it is released, and it is unmapped once: never twice, and not
\* before the last object referring to it is gone.
C2_UnmappedExactlyOnce ==
    Owner.kind = "file" =>
        /\ unmapCount <= 1
        /\ (\A o \in Ids : ~objs[o].handle) => unmapCount = 1
        /\ unmapCount = 1 => \A o \in Ids : ~objs[o].alive

C2_Witness ==
    /\ Owner.kind = "file"
    /\ unmapCount = 1
    /\ \A o \in Ids : ~objs[o].handle
    /\ \E o \in Derived : objs[o].kind = "spans"
    /\ \E o \in Derived : objs[o].kind = "subspan" /\ objs[o].parent # 1

====
